---- MODULE Spec2Model ----
(***************************************************************************)
(* A model of src/src/spellcheck.rs: the SymSpell-style spelling           *)
(* corrector (deletion-variant index, bounded Levenshtein verifier,        *)
(* ranking, result cache, parallel batch path).                            *)
(*                                                                         *)
(* A word is a sequence of bytes; the bytes are the small numbers of       *)
(* Alphabet (1 stands for 'a', 2 for 'b'), so that Rust's bytewise string  *)
(* comparison is the lexicographic order on these sequences.               *)
(***************************************************************************)
EXTENDS Integers, Sequences, FiniteSets

\* ---------------------------------------------------------------- bounds

\* Longest word given to bounded_levenshtein and deletion_variants alone.
MaxLen == 3
\* Largest max_dist / max_del given to them.
MaxBound == 3
\* Longest word list passed to new or grown by add_word_to_dictionary.
MaxDict == 2
\* Largest n_suggestions of a query.
MaxN == 2
\* Largest max_edit_distance passed to new.
MaxDist == 2
\* Longest word sequence passed to suggest_word_corrections.
MaxBatch == 2

Alphabet == {1, 2}

RECURSIVE StringsOfLen(_)
StringsOfLen(l) ==
    IF l = 0 THEN {<<>>}
    ELSE {Append(s, c) : s \in StringsOfLen(l - 1), c \in Alphabet}

AllStrings(maxlen) == UNION {StringsOfLen(l) : l \in 0..maxlen}

Min(x, y) == IF x <= y THEN x ELSE y

\* ------------------------------------------------- bounded_levenshtein

ColMax_narrow(row, max_dist, n) == Min(row + max_dist - 1, n)

\* let col_max = (row + max_dist).min(n);
ColMax(row, max_dist, n) == Min(row + max_dist, n)

\* One row of the banded dynamic programme: the inner `for j in 1..=n`.
RECURSIVE LevRow(_, _, _, _, _, _, _)
LevRow(curr, j, prev, sc, long, row, max_dist) ==
    LET n == Len(long) IN
    IF j > n THEN curr
    ELSE
      LET col_min == IF row > max_dist THEN row - max_dist ELSE 1
          col_max == ColMax(row, max_dist, n)
          cost == IF sc = long[j] THEN 0 ELSE 1
          ins == curr[j - 1] + 1
          del == prev[j] + 1
          sub == prev[j - 1] + cost
          v == IF j < col_min \/ j > col_max
               THEN max_dist + 1
               ELSE Min(Min(ins, del), sub)
      IN LevRow([curr EXCEPT ![j] = v], j + 1, prev, sc, long, row, max_dist)

\* The outer loop over the bytes of the shorter string, with the row swap.
RECURSIVE LevRows(_, _, _, _, _, _)
LevRows(prev, curr, i, shorter, long, max_dist) ==
    IF i > Len(shorter) THEN prev
    ELSE
      LET row == i
          filled == LevRow([curr EXCEPT ![0] = row], 1, prev, shorter[i],
                           long, row, max_dist)
      IN LevRows(filled, prev, i + 1, shorter, long, max_dist)

bounded_levenshtein(a, b, max_dist) ==
    LET shorter == IF Len(a) <= Len(b) THEN a ELSE b
        longer == IF Len(a) <= Len(b) THEN b ELSE a
        n == Len(longer)
    IN IF Len(longer) - Len(shorter) > max_dist
       THEN max_dist + 1
       ELSE LevRows([j \in 0..n |-> j], [j \in 0..n |-> 0], 1, shorter,
                    longer, max_dist)[n]

\* ---------------------------------------------------- deletion_variants

DeleteAt_skip(variant, idx) ==
    SubSeq(variant, 1, idx - 1) \o SubSeq(variant, idx + 2, Len(variant))

\* `shorter`: the variant without its character at (1-based) position idx.
DeleteAt(variant, idx) ==
    SubSeq(variant, 1, idx - 1) \o SubSeq(variant, idx + 1, Len(variant))

\* The `for _ in 0..max_del` loop: one breadth-first round per call.
RECURSIVE DelRounds(_, _, _)
DelRounds(seen, frontier, rounds) ==
    IF rounds = 0 THEN seen
    ELSE
      LET produced == UNION {{DeleteAt(v, idx) : idx \in 1..Len(v)} : v \in frontier}
          next == produced \ seen
      IN IF next = {} THEN seen
         ELSE DelRounds(seen \cup next, next, rounds - 1)

deletion_variants(word, max_del, keep_original) ==
    DelRounds(IF keep_original THEN {word} ELSE {}, {word}, max_del)

\* ------------------------------------------------------- SpellCorrector

VARIABLES
    dictionary,               \* Vec<String>: the words, in insertion order
    lkp_dictionary,           \* HashSet<String>: the words, for membership
    dictionary_del_mappings,  \* HashMap<String, Vec<usize>>: variant -> word indices
    max_edit_distance,        \* usize, fixed at construction
    cache,                    \* LFUCache<String, Vec<Suggestion>>
    batch,                    \* a suggest_word_corrections call in flight
    call,                     \* a call of one of the two free functions
    ret                       \* the last call of the corrector and what it returned

\* The words of the corrector specifications, as vocabulary and as queries:
\* "", "a", "b", "ab".
Words == {<<>>, <<1>>, <<2>>, <<1, 2>>}
\* The bounds passed to new.
Dists == 1..MaxDist
\* LFUCache::new(10000)
CacheCapacity == 10000

Range(f) == {f[x] : x \in DOMAIN f}

RECURSIVE SeqsUpTo(_, _)
SeqsUpTo(S, l) ==
    IF l = 0 THEN {<<>>}
    ELSE LET shorter == SeqsUpTo(S, l - 1)
         IN shorter \cup {Append(s, x) : s \in {t \in shorter : Len(t) = l - 1}, x \in S}

NoSuggestions == [tag |-> "NoSuggestions", list |-> <<>>]
Suggestions(l) == [tag |-> "Suggestions", list |-> l]
Suggestion(w, d) == [word |-> w, distance |-> d]

\* entry(del_word).or_insert_with(Vec::new).push(i), for every del_word.
PushIndex(mappings, deletions, i) ==
    [d \in (DOMAIN mappings) \cup deletions |->
        IF d \in deletions
        THEN Append(IF d \in DOMAIN mappings THEN mappings[d] ELSE <<>>, i)
        ELSE mappings[d]]

\* The loop of new over (i, word); i is Rust's 0-based index.
RECURSIVE NewMappings(_, _, _, _)
NewMappings(dict, k, i, mappings) ==
    IF i >= Len(dict) THEN mappings
    ELSE NewMappings(dict, k, i + 1,
                     PushIndex(mappings, deletion_variants(dict[i + 1], k, TRUE), i))

\* SpellCorrector::new: the fields of the constructed corrector.
New(dict, k) ==
    [dictionary |-> dict,
     lkp_dictionary |-> Range(dict),
     dictionary_del_mappings |-> NewMappings(dict, k, 0, <<>>),
     max_edit_distance |-> k,
     cache |-> <<>>]

\* The corrector the variables hold, as a record.
Self ==
    [dictionary |-> dictionary,
     lkp_dictionary |-> lkp_dictionary,
     dictionary_del_mappings |-> dictionary_del_mappings,
     max_edit_distance |-> max_edit_distance,
     cache |-> cache]

LkpInsert_skip(lkp, word) == lkp

\* self.lkp_dictionary.insert(word.to_string())
LkpInsert(lkp, word) == lkp \cup {word}

\* ---- the cache (crate cachers, used through get / set / clear)

CacheGet(c, key) == IF key \in DOMAIN c THEN <<c[key]>> ELSE <<>>

\* The entries one of which set() evicts before admitting a new key: none
\* below capacity; at capacity the least frequently used one, which is any
\* entry as far as this model (which keeps no frequencies) can tell.
Victims(c, key) ==
    IF key \notin DOMAIN c /\ Cardinality(DOMAIN c) >= CacheCapacity
    THEN {<<v>> : v \in DOMAIN c}
    ELSE {<<>>}

CacheSet(c, key, val, victim) ==
    LET keep == (DOMAIN c) \ Range(victim)
    IN [w \in keep \cup {key} |-> IF w = key THEN val ELSE c[w]]

CacheClear_noop == cache

\* self.cache.clear()
CacheClear == <<>>

\* ---- suggest_single_word_corrections

\* a.word.cmp(&b.word): bytewise lexicographic order, -1 / 0 / 1.
RECURSIVE CmpWord(_, _)
CmpWord(a, b) ==
    IF a = <<>> THEN (IF b = <<>> THEN 0 ELSE -1)
    ELSE IF b = <<>> THEN 1
    ELSE IF Head(a) < Head(b) THEN -1
    ELSE IF Head(a) > Head(b) THEN 1
    ELSE CmpWord(Tail(a), Tail(b))

CmpNat(x, y) == IF x < y THEN -1 ELSE IF x > y THEN 1 ELSE 0

CmpSuggestion_shortfirst(a, b) ==
    IF CmpNat(a.distance, b.distance) # 0 THEN CmpNat(a.distance, b.distance)
    ELSE IF CmpNat(Len(a.word), Len(b.word)) # 0 THEN CmpNat(Len(a.word), Len(b.word))
    ELSE CmpWord(a.word, b.word)

\* The comparator of sort_by.
CmpSuggestion(a, b) ==
    IF CmpNat(a.distance, b.distance) # 0 THEN CmpNat(a.distance, b.distance)
    ELSE IF CmpNat(Len(b.word), Len(a.word)) # 0 THEN CmpNat(Len(b.word), Len(a.word))
    ELSE CmpWord(a.word, b.word)

\* A stable sort by the comparator: insertion after the elements not greater.
RECURSIVE InsertSorted(_, _)
InsertSorted(sorted, x) ==
    IF sorted = <<>> THEN <<x>>
    ELSE IF CmpSuggestion(x, Head(sorted)) < 0 THEN <<x>> \o sorted
    ELSE <<Head(sorted)>> \o InsertSorted(Tail(sorted), x)

RECURSIVE SortBy(_)
SortBy(s) ==
    IF s = <<>> THEN <<>>
    ELSE InsertSorted(SortBy(SubSeq(s, 1, Len(s) - 1)), s[Len(s)])

\* iter().take(n) and truncate(n)
Take(s, n) == SubSeq(s, 1, Min(n, Len(s)))

\* The candidate indices: the union of the buckets of the query's variants.
Candidates(self, word) ==
    LET word_deletions == deletion_variants(word, self.max_edit_distance, FALSE)
    IN UNION {Range(self.dictionary_del_mappings[d]) :
                d \in word_deletions \cap DOMAIN self.dictionary_del_mappings}

\* filter_map over the candidate set, in the set's iteration order: here by
\* increasing index (the sort that follows makes the order immaterial, as
\* suggestions that compare equal are equal).
RECURSIVE FilterMap(_, _, _)
FilterMap(self, word, candidates) ==
    IF candidates = {} THEN <<>>
    ELSE
      LET candidate == CHOOSE c \in candidates : \A o \in candidates : c <= o
          distance == bounded_levenshtein(word, self.dictionary[candidate + 1],
                                          self.max_edit_distance)
          rest == FilterMap(self, word, candidates \ {candidate})
      IN IF distance <= self.max_edit_distance
         THEN <<Suggestion(self.dictionary[candidate + 1], distance)>> \o rest
         ELSE rest

\* Lines 191-223: the recomputation, sorted and truncated.
Recompute(self, word, n_suggestions) ==
    Take(SortBy(FilterMap(self, word, Candidates(self, word))), n_suggestions)

CacheHit_ge(self, word, n_suggestions) ==
    /\ word \notin self.lkp_dictionary
    /\ CacheGet(self.cache, word) # <<>>
    /\ Len(CacheGet(self.cache, word)[1]) >= n_suggestions

\* Whether the call is served by the cache-hit branch (lines 179-189).
CacheHit(self, word, n_suggestions) ==
    /\ word \notin self.lkp_dictionary
    /\ CacheGet(self.cache, word) # <<>>
    /\ Len(CacheGet(self.cache, word)[1]) > n_suggestions

ServeCached_all(cached_suggestions, n_suggestions) == cached_suggestions

\* cached_suggestions.iter().take(n_suggestions).cloned().collect()
ServeCached(cached_suggestions, n_suggestions) == Take(cached_suggestions, n_suggestions)

\* What suggest_single_word_corrections returns.
SingleResult(self, word, n_suggestions) ==
    IF word \in self.lkp_dictionary THEN NoSuggestions
    ELSE IF CacheHit(self, word, n_suggestions)
    THEN Suggestions(ServeCached(CacheGet(self.cache, word)[1], n_suggestions))
    ELSE Suggestions(Recompute(self, word, n_suggestions))

\* The cache it leaves.
SingleCache(self, word, n_suggestions, victim) ==
    IF word \in self.lkp_dictionary \/ CacheHit(self, word, n_suggestions)
    THEN self.cache
    ELSE CacheSet(self.cache, word, Recompute(self, word, n_suggestions), victim)

\* ---- the operations of the corrector

BatchIdle == [active |-> FALSE]
CallIdle == [fn |-> "none"]

corrector == <<dictionary, lkp_dictionary, dictionary_del_mappings, max_edit_distance>>
vars == <<dictionary, lkp_dictionary, dictionary_del_mappings,
          max_edit_distance, cache, batch, call, ret>>

Constructed(dict, k) ==
    /\ dictionary = New(dict, k).dictionary
    /\ lkp_dictionary = New(dict, k).lkp_dictionary
    /\ dictionary_del_mappings = New(dict, k).dictionary_del_mappings
    /\ max_edit_distance = New(dict, k).max_edit_distance
    /\ cache = New(dict, k).cache
    /\ ret = [kind |-> "new"]

Init ==
    /\ \E dict \in SeqsUpTo(Words, MaxDict), k \in Dists : Constructed(dict, k)
    /\ batch = BatchIdle
    /\ call = CallIdle

add_word_to_dictionary(word) ==
    /\ ~batch.active
    /\ Len(dictionary) < MaxDict
    /\ dictionary' = Append(dictionary, word)
    /\ dictionary_del_mappings' =
          PushIndex(dictionary_del_mappings,
                    deletion_variants(word, max_edit_distance, TRUE),
                    Len(dictionary') - 1)
    /\ lkp_dictionary' = LkpInsert(lkp_dictionary, word)
    /\ cache' = CacheClear
    /\ ret' = [kind |-> "add", word |-> word,
               dropped |-> Cardinality(DOMAIN cache)]
    /\ UNCHANGED <<max_edit_distance, batch, call>>

\* The ghost field of an add's record: `dropped`, the number of entries the
\* cache held when the word was added. Those of a query's record:
\* `just_added`, the call before added this word; `widened`, the call before was a
\* query of the same word with a smaller count; `narrowed`, the call before
\* was a widened query of the same word (outside the vocabulary) and this
\* count is at most that one's.
suggest_single_word_corrections(word, n_suggestions) ==
    /\ ~batch.active
    /\ \E victim \in Victims(cache, word) :
          cache' = SingleCache(Self, word, n_suggestions, victim)
    /\ ret' = [kind |-> "query", word |-> word, n |-> n_suggestions,
               hit |-> CacheHit(Self, word, n_suggestions),
               just_added |-> (ret.kind = "add" /\ ret.word = word),
               widened |-> (ret.kind = "query" /\ ret.word = word
                             /\ n_suggestions > ret.n),
               narrowed |-> (ret.kind = "query" /\ ret.word = word
                              /\ ret.widened /\ n_suggestions <= ret.n),
               result |-> SingleResult(Self, word, n_suggestions)]
    /\ UNCHANGED <<corrector, batch, call>>

AddWord == \E word \in Words : add_word_to_dictionary(word)

Query == \E word \in Words, n \in 0..MaxN : suggest_single_word_corrections(word, n)

Next == AddWord \/ Query

Spec == Init /\ [][Next]_vars

\* ---- suggest_word_corrections: par_iter().map(..).collect()

\* The word lists the corrector of the batch specification is built from:
\* ["a", "b"] and ["", "b"], over which "ab" and "a" have two candidates.
BatchDictionaries == {<< <<1>>, <<2>> >>, << <<>>, <<2>> >>}

InitBatch ==
    /\ \E dict \in BatchDictionaries, k \in Dists : Constructed(dict, k)
    /\ batch = BatchIdle
    /\ call = CallIdle

\* The call starts: one task per word, none run yet. (The caller has dropped
\* what the call before returned.)
suggest_word_corrections(words, n_suggestions) ==
    /\ ~batch.active
    /\ ret.kind # "batch"
    /\ batch' = [active |-> TRUE, words |-> words, n |-> n_suggestions,
                 pc |-> [i \in DOMAIN words |-> "lookup"],
                 local |-> [i \in DOMAIN words |-> <<>>],
                 results |-> [i \in DOMAIN words |-> NoSuggestions]]
    /\ UNCHANGED <<corrector, cache, call, ret>>

\* Task i up to and including its cache.get (lines 175-223): it returns at
\* once for a known word or a cache hit, and otherwise holds its recomputed
\* list, not yet stored.
WorkerLookup(i) ==
    /\ batch.active
    /\ i \in DOMAIN batch.words
    /\ batch.pc[i] = "lookup"
    /\ LET word == batch.words[i]
           returns == word \in lkp_dictionary \/ CacheHit(Self, word, batch.n)
       IN batch' = [batch EXCEPT
              !.pc[i] = IF returns THEN "done" ELSE "store",
              !.results[i] = IF returns THEN SingleResult(Self, word, batch.n) ELSE @,
              !.local[i] = IF returns THEN @ ELSE Recompute(Self, word, batch.n)]
    /\ UNCHANGED <<corrector, cache, call, ret>>

\* Task i's cache.set and return (lines 225-227).
WorkerStore(i) ==
    /\ batch.active
    /\ i \in DOMAIN batch.words
    /\ batch.pc[i] = "store"
    /\ \E victim \in Victims(cache, batch.words[i]) :
          cache' = CacheSet(cache, batch.words[i], batch.local[i], victim)
    /\ batch' = [batch EXCEPT !.pc[i] = "done",
                              !.results[i] = Suggestions(batch.local[i])]
    /\ UNCHANGED <<corrector, call, ret>>

CollectResults_reversed(b) ==
    [i \in DOMAIN b.results |-> b.results[Len(b.results) + 1 - i]]

\* collect(): the tasks' results, in the order of the input.
CollectResults(b) == b.results

BatchDone == batch.active /\ \A i \in DOMAIN batch.words : batch.pc[i] = "done"

\* The call returns, every task being done.
BatchCollect ==
    /\ BatchDone
    /\ ret' = [kind |-> "batch", words |-> batch.words, n |-> batch.n,
               results |-> CollectResults(batch)]
    /\ batch' = BatchIdle
    /\ UNCHANGED <<corrector, cache, call>>

\* The caller drops the returned Vec<SuggestedCorrection>.
DropResult ==
    /\ ret.kind = "batch"
    /\ ret' = [kind |-> "dropped"]
    /\ UNCHANGED <<corrector, cache, batch, call>>

BatchStart ==
    \E words \in SeqsUpTo(Words, MaxBatch), n \in 0..MaxN :
        suggest_word_corrections(words, n)

Lookup == \E i \in 1..MaxBatch : WorkerLookup(i)

Store == \E i \in 1..MaxBatch : WorkerStore(i)

NextBatch == BatchStart \/ Lookup \/ Store \/ BatchCollect \/ DropResult

SpecBatch == InitBatch /\ [][NextBatch]_vars

\* ---- the two free functions, called on their own

InitCorrectorUnused ==
    /\ Constructed(<<>>, 0)
    /\ batch = BatchIdle

InitLev ==
    /\ InitCorrectorUnused
    /\ \E a \in AllStrings(MaxLen), b \in AllStrings(MaxLen), m \in 0..MaxBound :
          call = [fn |-> "bounded_levenshtein", a |-> a, b |-> b, max_dist |-> m,
                  done |-> FALSE, out |-> 0]

CallLev ==
    /\ call.fn = "bounded_levenshtein"
    /\ ~call.done
    /\ call' = [call EXCEPT !.done = TRUE,
                            !.out = bounded_levenshtein(call.a, call.b, call.max_dist)]
    /\ UNCHANGED <<corrector, cache, batch, ret>>

NextLev == CallLev

SpecLev == InitLev /\ [][NextLev]_vars

InitDel ==
    /\ InitCorrectorUnused
    /\ \E w \in AllStrings(MaxLen), k \in 0..MaxBound, keep \in BOOLEAN :
          call = [fn |-> "deletion_variants", word |-> w, max_del |-> k,
                  keep_original |-> keep, done |-> FALSE, out |-> {}]

CallDel ==
    /\ call.fn = "deletion_variants"
    /\ ~call.done
    /\ call' = [call EXCEPT !.done = TRUE,
                            !.out = deletion_variants(call.word, call.max_del,
                                                      call.keep_original)]
    /\ UNCHANGED <<corrector, cache, batch, ret>>

NextDel == CallDel

SpecDel == InitDel /\ [][NextDel]_vars

\* ------------------------------------------------------ reference notions

\* The Levenshtein distance, by its recurrence.
RECURSIVE Levenshtein(_, _)
Levenshtein(a, b) ==
    IF a = <<>> THEN Len(b)
    ELSE IF b = <<>> THEN Len(a)
    ELSE IF Head(a) = Head(b) THEN Levenshtein(Tail(a), Tail(b))
    ELSE 1 + Min(Levenshtein(Tail(a), Tail(b)),
                 Min(Levenshtein(Tail(a), b), Levenshtein(a, Tail(b))))

\* w without its characters at the positions of S.
RECURSIVE Without(_, _, _)
Without(w, S, i) ==
    IF i > Len(w) THEN <<>>
    ELSE (IF i \in S THEN <<>> ELSE <<w[i]>>) \o Without(w, S, i + 1)

\* The strings obtained from w by deleting between 1 and k characters.
Deletions(w, k) ==
    {Without(w, S, 1) :
        S \in {T \in SUBSET (1..Len(w)) : Cardinality(T) >= 1 /\ Cardinality(T) <= k}}

\* a before b in the bytewise lexicographic order.
LexLess(a, b) ==
    \E p \in 0..Min(Len(a), Len(b)) :
        /\ SubSeq(a, 1, p) = SubSeq(b, 1, p)
        /\ \/ p = Len(a) /\ p < Len(b)
           \/ p < Len(a) /\ p < Len(b) /\ a[p + 1] < b[p + 1]

\* Suggestion a ranks strictly before suggestion b.
Precedes(a, b) ==
    \/ a.distance < b.distance
    \/ a.distance = b.distance /\ Len(a.word) > Len(b.word)
    \/ a.distance = b.distance /\ Len(a.word) = Len(b.word) /\ LexLess(a.word, b.word)

\* The verified candidates of query q: the dictionary entries (1-based) that
\* share a deletion variant with q and lie within the bound, and the
\* suggestion each one makes.
Verified(q) ==
    {i \in 1..Len(dictionary) :
        /\ deletion_variants(q, max_edit_distance, FALSE)
             \cap deletion_variants(dictionary[i], max_edit_distance, TRUE) # {}
        /\ Levenshtein(q, dictionary[i]) <= max_edit_distance}

VerifiedSuggestion(q, i) == Suggestion(dictionary[i], Levenshtein(q, dictionary[i]))

Occurrences(l, s) == Cardinality({j \in DOMAIN l : l[j] = s})

\* l is the first n of the verified candidates of q in ranking order.
IsRankedPrefix(l, q, n) ==
    LET Available(s) == Cardinality({i \in Verified(q) : VerifiedSuggestion(q, i) = s})
    IN /\ Len(l) = Min(n, Cardinality(Verified(q)))
       /\ \A j \in 1..(Len(l) - 1) : l[j] = l[j + 1] \/ Precedes(l[j], l[j + 1])
       /\ \A s \in Range(l) : Occurrences(l, s) <= Available(s)
       /\ \A i \in Verified(q) :
             LET s == VerifiedSuggestion(q, i)
             IN Occurrences(l, s) < Available(s)
                  => \A j \in DOMAIN l : l[j] = s \/ Precedes(l[j], s)

IsQuery == ret.kind = "query"
Vocabulary == Range(dictionary)

\* ----------------------------------------------------------------- claims

\* C1: a query returns NoSuggestions exactly when its word is in the
\* vocabulary (a constructor word or an added one), whatever the count and
\* the cache; for any other word it returns the Suggestions variant.
C1_NoSuggestionsIffKnown ==
    IsQuery =>
        /\ (ret.result = NoSuggestions) <=> (ret.word \in Vocabulary)
        /\ ret.word \notin Vocabulary => ret.result.tag = "Suggestions"

C1_Witness ==
    /\ IsQuery
    /\ ret.just_added
    /\ ret.result = NoSuggestions

\* C2: for a bound k >= 1 and a query outside the vocabulary, a query with a
\* count of at least the vocabulary size returns every vocabulary word whose
\* Levenshtein distance to the query is at most k.
C2_FindsAllWithinBound ==
    (IsQuery /\ max_edit_distance >= 1 /\ ret.word \notin Vocabulary
       /\ ret.n >= Len(dictionary))
    => \A i \in 1..Len(dictionary) :
          Levenshtein(ret.word, dictionary[i]) <= max_edit_distance
            => \E j \in DOMAIN ret.result.list :
                  ret.result.list[j].word = dictionary[i]

\* C3: every returned list, recomputed or served from the cache, is the first
\* n of the verified candidates sorted by ascending distance, then descending
\* word length, then ascending lexicographic order.
C3_RankedPrefix ==
    (IsQuery /\ ret.result.tag = "Suggestions")
    => IsRankedPrefix(ret.result.list, ret.word, ret.n)

C3_Witness ==
    /\ IsQuery
    /\ Len(ret.result.list) = 2
    /\ ret.result.list[1].distance = ret.result.list[2].distance
    /\ Len(ret.result.list[1].word) > Len(ret.result.list[2].word)

\* C4: add_word_to_dictionary(w) leaves the cache empty and the corrector
\* equal to one freshly constructed from the old word list with w appended,
\* and every query returns what the corrector freshly constructed from the
\* current word list and the same bound returns.
C4_AddInvalidates ==
    [][/\ ret'.kind = "add" =>
            /\ cache' = <<>>
            /\ Self' = New(Append(dictionary, ret'.word), max_edit_distance)
       /\ ret'.kind = "query" =>
            ret'.result = SingleResult(New(dictionary, max_edit_distance),
                                       ret'.word, ret'.n)]_vars

C4_Witness ==
    /\ ret.kind = "add"
    /\ ret.dropped > 0
    /\ cache = <<>>

\* C5: with the vocabulary unchanged, the result of a query depends on the
\* word and the count alone, not on the queries before it: it is what the
\* corrector returns from an empty cache.
C5_CacheTransparent ==
    IsQuery =>
        ret.result = SingleResult([Self EXCEPT !.cache = <<>>], ret.word, ret.n)

C5_Witness ==
    /\ IsQuery
    /\ ret.hit
    /\ Len(ret.result.list) >= 1

\* C6 as stated: a query of q (outside the vocabulary) with a larger count
\* than the query of q just before it is recomputed and returns at least
\* min(n2, verified candidates) suggestions, and the query of q after that
\* with a count n3 <= n2 is served from the cache.
C6_NarrowedAlwaysCached ==
    (IsQuery /\ ret.word \notin Vocabulary) =>
        /\ ret.widened =>
              /\ ~ret.hit
              /\ Len(ret.result.list) >= Min(ret.n, Cardinality(Verified(ret.word)))
        /\ ret.narrowed => ret.hit

\* C6 as amended: a query of q (outside the vocabulary) with a larger count
\* n2 than the query of q just before it is recomputed whenever that query
\* was (it is served from the cache when the cache still holds a list longer
\* than n2 from an earlier, wider query), returns min(n2, verified
\* candidates) suggestions and, when recomputed, leaves them as the cache
\* entry of q; the next query of q with a count n3 <= n2 is served from the
\* cache exactly when n3 is less than the length of the cache entry; and a
\* query never drops or shortens a cache entry.
C6_NarrowedCachedIfShorter ==
    [][(ret'.kind = "query" /\ ret'.word \notin Vocabulary) =>
          /\ ret'.widened =>
                /\ ~ret.hit => ~ret'.hit
                /\ Len(ret'.result.list)
                     = Min(ret'.n, Cardinality(Verified(ret'.word)))
                /\ ~ret'.hit => CacheGet(cache', ret'.word) = <<ret'.result.list>>
          /\ ret'.narrowed =>
                /\ ret'.word \in DOMAIN cache
                /\ ret'.hit <=> ret'.n < Len(cache[ret'.word])
                /\ ~ret.hit => cache[ret'.word] = ret.result.list
          /\ \A w \in DOMAIN cache :
                w \in DOMAIN cache' /\ Len(cache'[w]) >= Len(cache[w])]_vars

C6_Witness ==
    /\ IsQuery
    /\ ret.word \notin Vocabulary
    /\ ret.narrowed
    /\ ret.hit
    /\ Len(ret.result.list) >= 1

\* C8: a suggestion list never contains the same word twice, whatever word
\* list the corrector was constructed from and whatever words were added.
C8_NoWordTwice ==
    IsQuery =>
        \A i, j \in DOMAIN ret.result.list :
            ret.result.list[i].word = ret.result.list[j].word => i = j

\* C9: bounded_levenshtein(a, b, m) is the Levenshtein distance of a and b
\* when that is at most m, and exceeds m otherwise.
C9_BoundedLevenshtein ==
    (call.fn = "bounded_levenshtein" /\ call.done) =>
        LET d == Levenshtein(call.a, call.b)
        IN IF d <= call.max_dist THEN call.out = d ELSE call.out > call.max_dist

C9_Witness ==
    /\ call.fn = "bounded_levenshtein"
    /\ call.done
    /\ Len(call.a) # Len(call.b)
    /\ call.max_dist >= 1
    /\ call.out = call.max_dist
    /\ Levenshtein(call.a, call.b) = call.max_dist

\* C10: deletion_variants(w, k, keep_original) is the set of the strings
\* obtained from w by deleting between 1 and k characters, with w itself
\* exactly when keep_original; so without keep_original it never holds w and
\* is empty for k = 0, and every string of it has a length between |w| - k
\* and |w|.
C10_DeletionVariants ==
    (call.fn = "deletion_variants" /\ call.done) =>
        /\ call.out = Deletions(call.word, call.max_del)
                        \cup (IF call.keep_original THEN {call.word} ELSE {})
        /\ ~call.keep_original =>
              /\ call.word \notin call.out
              /\ call.max_del = 0 => call.out = {}
        /\ \A s \in call.out :
              Len(s) >= Len(call.word) - call.max_del /\ Len(s) <= Len(call.word)

C10_Witness ==
    /\ call.fn = "deletion_variants"
    /\ call.done
    /\ ~call.keep_original
    /\ Len(call.word) >= 2
    /\ call.max_del > Len(call.word)
    /\ <<>> \in call.out
    /\ Cardinality(call.out) >= 3

\* C7: suggest_word_corrections(words, n) returns, under every interleaving
\* of the tasks' cache reads and writes, a sequence as long as the input
\* whose i-th element is what suggest_single_word_corrections(words[i], n)
\* returns.
C7_BatchIsPointwise ==
    ret.kind = "batch" =>
        /\ Len(ret.results) = Len(ret.words)
        /\ \A i \in DOMAIN ret.words :
              ret.results[i] = SingleResult(Self, ret.words[i], ret.n)

C7_Witness ==
    /\ ret.kind = "batch"
    /\ Len(ret.words) >= 2
    /\ ret.words[1] = ret.words[2]
    /\ ret.results[1].tag = "Suggestions"
    /\ Len(ret.results[1].list) >= 2

====
